---- MODULE Spec2Model ----
(***************************************************************************)
(* Falling-sand simulator (src/main.py, class FallingSand).                *)
(*                                                                         *)
(* The grid is a SIZE x SIZE matrix of cells, 0 (empty) or 1 (sand),       *)
(* indexed grid[row][col] with the row growing downward.  update_grid      *)
(* builds a fresh buffer, paints into it when the primary button is held   *)
(* and projects every sand cell of the current grid to its destination;    *)
(* run drives handle_events, a fixed-step tick loop, draw and the frame    *)
(* wait.  Time is counted in integer units from the moment run starts.     *)
(***************************************************************************)
EXTENDS Integers, Sequences, FiniteSets, TLC

\* ------------------------------------------------------------------ sizes
\* self.SIZE: 50 in the source, here the 3 of the scenarios of spec.md
SIZE == 3

RADIUS == 5

EMPTY == 0

SAND == 1

\* one tick lasts DeltaTime clock units (self._delta_time)
DeltaTime == 2

\* the clock is observed up to MaxTime units after the start of run
MaxTime == 5

\* at most MaxEvents events are returned by one pygame.event.get()
MaxEvents == 2

\* the pointer's cell may lie up to PtrOver cells outside the grid
PtrOver == 1

\* the grids painted on in isolation hold at most MaxSand grains
MaxSand == 3

\* the scan is tried in every order of the grains on grids of at most
\* MaxPermSand grains
MaxPermSand == 5

\* the grids left to settle hold at most MaxSettleSand grains
MaxSettleSand == 4

Idx == 0 .. (SIZE - 1)

Cells == Idx \X Idx

AllGrids == [Cells -> {EMPTY, SAND}]

PtrRange == (0 - PtrOver) .. (SIZE - 1 + PtrOver)

Extent == RADIUS \div 2

Offsets == (0 .. (Extent - 1)) \X (0 .. (Extent - 1))

Events == {"QUIT", "K_r", "K_c", "K_q", "K_other"}

\* ------------------------------------------------------------- the grid
generate_grid == [cell \in Cells |-> EMPTY]

\* within_rows without its lower bound
within_rows_unsigned(row) == row <= SIZE - 1

within_rows(row) == 0 <= row /\ row <= SIZE - 1

\* within_cols without its lower bound
within_cols_unsigned(cols) == cols <= SIZE - 1

within_cols(cols) == 0 <= cols /\ cols <= SIZE - 1

\* a Python list index: a negative index counts from the end of the list
ListIndex(i) == IF i < 0 THEN i + SIZE ELSE i

GridGet(g, row, col) == g[<<ListIndex(row), ListIndex(col)>>]

GridSet(g, row, col, v) == [g EXCEPT ![<<ListIndex(row), ListIndex(col)>>] = v]

\* ----------------------------------------------------------- handle_drag
\* mxr, myc: the pointer's cell; thin: the brush offsets (row, column) whose
\* draw of round(uniform(0, 1), 2) came out below 0.75
RECURSIVE DragFrom(_, _, _, _, _)
DragFrom(next_grid, mxr, myc, thin, k) ==
    IF k >= Extent * Extent
    THEN next_grid
    ELSE LET row    == k \div Extent
             column == k % Extent
             r      == mxr + row
             c      == myc + column
         IN  DragFrom(IF <<row, column>> \in thin /\ within_cols(c) /\ within_rows(r)
                      THEN GridSet(next_grid, c, r, SAND)
                      ELSE next_grid,
                      mxr, myc, thin, k + 1)

\* handle_drag with the brush centred on the pointer's cell
handle_drag_centred(next_grid, mxr, myc, thin) ==
    DragFrom(next_grid, mxr - Extent \div 2, myc - Extent \div 2, thin, 0)

handle_drag(next_grid, mxr, myc, thin) == DragFrom(next_grid, mxr, myc, thin, 0)

\* ----------------------------------------------------------- update_grid
\* the sand cell at (row, col) finds the cell below taken or out of range,
\* so that choice((-1, 1)) is called for it
NeedsChoice(g, row, col) ==
    /\ g[<<row, col>>] = SAND
    /\ ~(within_rows(row + 1) /\ GridGet(g, row + 1, col) = EMPTY)

\* Destination whose diagonal slide does not look at the cell it lands on
Destination_blind_slide(g, row, col, dir) ==
    LET below   == row + 1
        new_col == col + dir
    IN  IF within_rows(below) /\ GridGet(g, below, col) = EMPTY
        THEN <<below, col>>
        ELSE IF within_cols(new_col) /\ within_rows(below)
             THEN <<below, new_col>>
             ELSE <<row, col>>

\* Destination with the diagonal tried before the straight fall
Destination_lateral_first(g, row, col, dir) ==
    LET below   == row + 1
        new_col == col + dir
    IN  IF within_cols(new_col) /\ within_rows(below)
               /\ GridGet(g, below, new_col) = EMPTY
        THEN <<below, new_col>>
        ELSE IF within_rows(below) /\ GridGet(g, below, col) = EMPTY
             THEN <<below, col>>
             ELSE <<row, col>>

\* where the sand cell at (row, col) of g is written in the next buffer
Destination(g, row, col, dir) ==
    LET below   == row + 1
        new_col == col + dir
    IN  IF within_rows(below) /\ GridGet(g, below, col) = EMPTY
        THEN <<below, col>>
        ELSE IF within_cols(new_col) /\ within_rows(below)
                    /\ GridGet(g, below, new_col) = EMPTY
             THEN <<below, new_col>>
             ELSE <<row, col>>

\* MoveCell that also looks at the next buffer: a particle whose destination
\* is already taken there rests
MoveCell_checks_next(g, next_grid, row, col, dir) ==
    LET cell == g[<<row, col>>]
    IN  IF cell # SAND
        THEN next_grid
        ELSE LET d == Destination(g, row, col, dir)
             IN  IF GridGet(next_grid, d[1], d[2]) = SAND
                 THEN GridSet(next_grid, row, col, cell)
                 ELSE GridSet(next_grid, d[1], d[2], cell)

\* MoveCell that copies the particle: the cell it leaves is written as well
MoveCell_leaves_trail(g, next_grid, row, col, dir) ==
    LET cell == g[<<row, col>>]
    IN  IF cell # SAND
        THEN next_grid
        ELSE LET d == Destination(g, row, col, dir)
             IN  GridSet(GridSet(next_grid, row, col, cell), d[1], d[2], cell)

\* MoveCell without the write of a particle that rests
MoveCell_no_rest(g, next_grid, row, col, dir) ==
    LET cell == g[<<row, col>>]
    IN  IF cell # SAND
        THEN next_grid
        ELSE LET d == Destination(g, row, col, dir)
             IN  IF d = <<row, col>>
                 THEN next_grid
                 ELSE GridSet(next_grid, d[1], d[2], cell)

\* the body of the scan loop for one cell
MoveCell(g, next_grid, row, col, dir) ==
    LET cell == g[<<row, col>>]
    IN  IF cell # SAND
        THEN next_grid
        ELSE LET d == Destination(g, row, col, dir)
             IN  GridSet(next_grid, d[1], d[2], cell)

\* the scan, row-major from the top row, from the k-th cell on
RECURSIVE ScanFrom(_, _, _, _)
ScanFrom(g, next_grid, dirs, k) ==
    IF k >= SIZE * SIZE
    THEN next_grid
    ELSE LET row == k \div SIZE
             col == k % SIZE
         IN  ScanFrom(g, MoveCell(g, next_grid, row, col, dirs[<<row, col>>]),
                      dirs, k + 1)

NoPaint == [pressed |-> FALSE, mxr |-> 0, myc |-> 0, thin |-> {}]

\* the pointer states a tick can read, normalised when the button is up
\* (handle_drag is then not called and nothing else is read)
PaintInputs ==
    {NoPaint} \cup
    {[pressed |-> TRUE, mxr |-> x, myc |-> y, thin |-> t] :
        x \in PtrRange, y \in PtrRange, t \in SUBSET Offsets}

\* DirChoices of choice((-1,)): every draw is -1
DirChoices_left_only(g) ==
    LET asking == {cell \in Cells : NeedsChoice(g, cell[1], cell[2])}
    IN  {[cell \in Cells |-> IF cell \in asking THEN -1 ELSE 0]}

\* the outcomes of choice((-1, 1)) in one tick on g: one per cell that asks
DirChoices(g) ==
    LET asking == {cell \in Cells : NeedsChoice(g, cell[1], cell[2])}
    IN  {[cell \in Cells |-> IF cell \in asking THEN f[cell] ELSE 0] :
            f \in [asking -> {-1, 1}]}

\* update_grid that paints whether or not the button is held
update_grid_ungated(g, paint, dirs) ==
    ScanFrom(g, handle_drag(generate_grid, paint.mxr, paint.myc, paint.thin),
             dirs, 0)

\* update_grid whose scan starts from a buffer the brush did not paint
update_grid_paint_lost(g, paint, dirs) ==
    ScanFrom(g, generate_grid, dirs, 0)

\* update_grid writing into a copy of the current grid
update_grid_in_place(g, paint, dirs) ==
    LET painted == IF paint.pressed
                   THEN handle_drag(g, paint.mxr, paint.myc, paint.thin)
                   ELSE g
    IN  ScanFrom(g, painted, dirs, 0)

update_grid(g, paint, dirs) ==
    LET fresh   == generate_grid
        painted == IF paint.pressed
                   THEN handle_drag(fresh, paint.mxr, paint.myc, paint.thin)
                   ELSE fresh
    IN  ScanFrom(g, painted, dirs, 0)

\* the (row, column) index pairs, as computed and before any list lookup,
\* that the scan loop uses for the cell (row, col): the reads of self.grid
\* and the write of next_grid
CellAccesses(g, row, col, dir) ==
    LET below   == row + 1
        new_col == col + dir
        falls   == within_rows(below) /\ GridGet(g, below, col) = EMPTY
    IN  {<<row, col>>} \cup
        IF g[<<row, col>>] # SAND
        THEN {}
        ELSE (IF within_rows(below) THEN {<<below, col>>} ELSE {}) \cup
             (IF ~falls /\ within_cols(new_col) /\ within_rows(below)
              THEN {<<below, new_col>>}
              ELSE {}) \cup
             {Destination(g, row, col, dir)}

\* the index pairs handle_drag writes next_grid at
DragAccesses(mxr, myc, thin) ==
    {<<myc + o[2], mxr + o[1]>> :
        o \in {p \in thin : within_cols(myc + p[2]) /\ within_rows(mxr + p[1])}}

\* every index pair one call of update_grid uses
TickAccesses(g, paint, dirs) ==
    (IF paint.pressed
     THEN DragAccesses(paint.mxr, paint.myc, paint.thin)
     ELSE {}) \cup
    UNION {CellAccesses(g, cell[1], cell[2], dirs[cell]) : cell \in Cells}

\* ---------------------------------------------------------- handle_events
\* handle_event with the reset bound to the key r only
handle_event_r_only(ev, g, run) ==
    IF ev = "QUIT"
    THEN [grid |-> g, running |-> FALSE]
    ELSE IF ev = "K_r"
         THEN [grid |-> generate_grid, running |-> run]
         ELSE IF ev = "K_q"
              THEN [grid |-> g, running |-> FALSE]
              ELSE [grid |-> g, running |-> run]

\* the effect of one event on (grid, running)
handle_event(ev, g, run) ==
    IF ev = "QUIT"
    THEN [grid |-> g, running |-> FALSE]
    ELSE IF ev \in {"K_r", "K_c"}
         THEN [grid |-> generate_grid, running |-> run]
         ELSE IF ev = "K_q"
              THEN [grid |-> g, running |-> FALSE]
              ELSE [grid |-> g, running |-> run]

RECURSIVE SeqsUpTo(_)
SeqsUpTo(n) ==
    IF n = 0
    THEN {<<>>}
    ELSE LET shorter == SeqsUpTo(n - 1)
         IN  shorter \cup {Append(s, e) : s \in shorter, e \in Events}

\* ------------------------------------------------------------------- run
\* AdvanceLastUpdate dropping the remainder: last_update_time = current_time
AdvanceLastUpdate_to_now(last, current) == current

\* the tick loop's bookkeeping of the time of the last tick
AdvanceLastUpdate(last, current) == last + DeltaTime

SandCount(g) == Cardinality({cell \in Cells : g[cell] = SAND})

VARIABLES
    grid,              \* self.grid
    running,           \* self.running
    pc,                \* position in run
    pending,           \* events of the current handle_events still to handle
    last_update_time,  \* run's local
    current_time,      \* run's local; also the last reading of the clock
    elapsed_time,      \* run's local
    screen,            \* the grid shown by the last draw
    lastTick,          \* the update_grid call the tick loop made last, until
                       \* the loop ends: grid read, pointer, choices
    lastEvent,         \* the event handled last in this handle_events, and
                       \* the sand count it found
    ticks,             \* update_grid calls so far
    frameTicks,        \* update_grid calls in this frame
    accStart,          \* elapsed_time when this frame's tick loop started
    frame              \* the steps taken in this frame, in order

vars == <<grid, running, pc, pending, last_update_time, current_time,
          elapsed_time, screen, lastTick, lastEvent, ticks, frameTicks,
          accStart, frame>>

NoTick == [grid |-> generate_grid, paint |-> NoPaint,
           dirs |-> [cell \in Cells |-> 0]]

NoEvent == <<"none", 0>>

Init ==
    /\ grid = generate_grid
    /\ running = TRUE
    /\ pc = "loop"
    /\ pending = <<>>
    /\ last_update_time = 0
    /\ current_time = 0
    /\ elapsed_time = 0
    /\ screen = generate_grid
    /\ lastTick = NoTick
    /\ lastEvent = NoEvent
    /\ ticks = 0
    /\ frameTicks = 0
    /\ accStart = 0
    /\ frame = <<>>

\* while self.running: handle_events() starts, pygame.event.get() returns
PollEvents ==
    /\ pc = "loop"
    /\ running
    /\ \E evs \in SeqsUpTo(MaxEvents) : pending' = evs
    /\ pc' = "events"
    /\ frame' = <<"poll">>
    /\ frameTicks' = 0
    /\ lastEvent' = NoEvent
    /\ UNCHANGED <<grid, running, last_update_time, current_time,
                   elapsed_time, screen, lastTick, ticks, accStart>>

\* one pass of the for loop of handle_events
HandleEvent ==
    /\ pc = "events"
    /\ pending # <<>>
    /\ LET after == handle_event(Head(pending), grid, running)
       IN  /\ grid' = after.grid
           /\ running' = after.running
    /\ lastEvent' = <<Head(pending), SandCount(grid)>>
    /\ pending' = Tail(pending)
    /\ UNCHANGED <<pc, last_update_time, current_time, elapsed_time, screen,
                   lastTick, ticks, frameTicks, accStart, frame>>

\* handle_events returns
EventsDone ==
    /\ pc = "events"
    /\ pending = <<>>
    /\ pc' = "check"
    /\ lastEvent' = NoEvent
    /\ UNCHANGED <<grid, running, pending, last_update_time, current_time,
                   elapsed_time, screen, lastTick, ticks, frameTicks,
                   accStart, frame>>

\* if not self.running: self.shutdown()  (pygame.quit(); sys.exit())
Shutdown ==
    /\ pc = "check"
    /\ ~running
    /\ pc' = "exited"
    /\ frame' = Append(frame, "shutdown")
    /\ UNCHANGED <<grid, running, pending, last_update_time, current_time,
                   elapsed_time, screen, lastTick, lastEvent, ticks,
                   frameTicks, accStart>>

\* SampleTime reached although running is false (shutdown that returns)
SampleTime_unchecked ==
    /\ pc = "check"
    /\ \E t \in current_time .. MaxTime : current_time' = t
    /\ elapsed_time' = current_time' - last_update_time
    /\ accStart' = elapsed_time'
    /\ pc' = "ticks"
    /\ UNCHANGED <<grid, running, pending, last_update_time, screen,
                   lastTick, lastEvent, ticks, frameTicks, frame>>

\* current_time = time.time(); elapsed_time = current_time - last_update_time
SampleTime ==
    /\ pc = "check"
    /\ running
    /\ \E t \in current_time .. MaxTime : current_time' = t
    /\ elapsed_time' = current_time' - last_update_time
    /\ accStart' = elapsed_time'
    /\ pc' = "ticks"
    /\ UNCHANGED <<grid, running, pending, last_update_time, screen,
                   lastTick, lastEvent, ticks, frameTicks, frame>>

\* one pass of the while loop: update_grid and the two updates of the time,
\* with the pointer in one of the states of paints
TickWith(paints) ==
    /\ pc = "ticks"
    /\ elapsed_time >= DeltaTime
    /\ \E paint \in paints, dirs \in DirChoices(grid) :
          /\ grid' = update_grid(grid, paint, dirs)
          /\ lastTick' = [grid |-> grid, paint |-> paint, dirs |-> dirs]
    /\ elapsed_time' = elapsed_time - DeltaTime
    /\ last_update_time' = AdvanceLastUpdate(last_update_time, current_time)
    /\ ticks' = ticks + 1
    /\ frameTicks' = frameTicks + 1
    /\ frame' = Append(frame, "tick")
    /\ UNCHANGED <<running, pc, pending, current_time, screen, lastEvent,
                   accStart>>

Tick == TickWith(PaintInputs)

\* Draw indented into the while loop: it runs after every pass as well
Draw_in_loop ==
    /\ pc = "ticks"
    /\ frameTicks > 0 \/ elapsed_time < DeltaTime
    /\ screen' = grid
    /\ pc' = IF elapsed_time < DeltaTime THEN "wait" ELSE "ticks"
    /\ frame' = Append(frame, "draw")
    /\ lastTick' = NoTick
    /\ UNCHANGED <<grid, running, pending, last_update_time, current_time,
                   elapsed_time, lastEvent, ticks, frameTicks, accStart>>

\* the while loop ends; self.draw()
Draw ==
    /\ pc = "ticks"
    /\ elapsed_time < DeltaTime
    /\ screen' = grid
    /\ pc' = "wait"
    /\ frame' = Append(frame, "draw")
    /\ lastTick' = NoTick
    /\ UNCHANGED <<grid, running, pending, last_update_time, current_time,
                   elapsed_time, lastEvent, ticks, frameTicks, accStart>>

\* self.clock.tick(self.FPS), then back to the head of the loop
ClockTick ==
    /\ pc = "wait"
    /\ pc' = "loop"
    /\ frame' = Append(frame, "wait")
    /\ UNCHANGED <<grid, running, pending, last_update_time, current_time,
                   elapsed_time, screen, lastTick, lastEvent, ticks,
                   frameTicks, accStart>>

Next ==
    \/ PollEvents
    \/ HandleEvent
    \/ EventsDone
    \/ Shutdown
    \/ SampleTime
    \/ Tick
    \/ Draw
    \/ ClockTick

Spec == Init /\ [][Next]_vars

\* update_grid alone: the tick loop is entered with one tick due on a grid of
\* grids
InitOn(grids) ==
    /\ grid \in grids
    /\ running = TRUE
    /\ pc = "ticks"
    /\ pending = <<>>
    /\ last_update_time = 0
    /\ current_time = DeltaTime
    /\ elapsed_time = DeltaTime
    /\ screen = generate_grid
    /\ lastTick = NoTick
    /\ lastEvent = NoEvent
    /\ ticks = 0
    /\ frameTicks = 0
    /\ accStart = DeltaTime
    /\ frame = <<"poll">>

\* every grid, the button up
InitTick == InitOn(AllGrids)

TickUnpressed == TickWith({NoPaint})

SpecTick == InitTick /\ [][TickUnpressed]_vars

\* every grid of at most MaxSand grains, every state of the pointer
InitPaint == InitOn({g \in AllGrids : SandCount(g) <= MaxSand})

SpecPaint == InitPaint /\ [][Tick]_vars

\* update_grid called tick after tick with the button up, as the tick loop
\* does while the clock runs on; the bookkeeping of the time is left out
SettleTickWith(draws) ==
    /\ pc = "ticks"
    /\ \E dirs \in draws :
          /\ lastTick' = [grid |-> grid, paint |-> NoPaint, dirs |-> dirs]
          /\ grid' = update_grid(grid, NoPaint, dirs)
    /\ UNCHANGED <<running, pc, pending, last_update_time, current_time,
                   elapsed_time, screen, lastEvent, ticks, frameTicks,
                   accStart, frame>>

SettleTick == SettleTickWith(DirChoices(grid))

\* some particle of g has, for one of the two draws, a destination other
\* than its own cell
Movable(g) ==
    \E cell \in Cells, dir \in {-1, 1} :
        /\ g[cell] = SAND
        /\ Destination(g, cell[1], cell[2], dir) # cell

\* a tick that changes the grid; it needs a particle that can move
SettleMove == Movable(grid) /\ SettleTick /\ grid' # grid

\* every grid of at most MaxSettleSand grains
InitSettle == InitOn({g \in AllGrids : SandCount(g) <= MaxSettleSand})

\* For a grid that stays as it is, a particle that could slide to one side
\* keeps asking for a draw, and a fair choice((-1, 1)) gives it that side in
\* the end; a particle that can fall does so in the next tick.  Hence a tick
\* that changes the grid does not stay possible for ever without happening.
SpecSettle ==
    /\ InitSettle
    /\ [][SettleTick]_vars
    /\ WF_vars(SettleMove)

\* ------------------------------------------------- vocabulary of the claims
\* update_grid has just run in the tick loop; lastTick holds what it read
JustTicked == pc = "ticks" /\ frameTicks > 0

Prev == lastTick.grid

SandOf(g) == {cell \in Cells : g[cell] = SAND}

\* the cell (r, c) is occupied in g or out of range
Taken(g, r, c) == <<r, c>> \notin Cells \/ g[<<r, c>>] = SAND

Below(cell) == <<cell[1] + 1, cell[2]>>

\* the destination the tick gave to the sand cell of Prev
DestOf(cell) == Destination(Prev, cell[1], cell[2], lastTick.dirs[cell])

MoveTargets == {DestOf(cell) : cell \in SandOf(Prev)}

\* the cells the brush asked for in the tick, in range or not
Candidates ==
    IF lastTick.paint.pressed
    THEN {<<lastTick.paint.myc + o[2], lastTick.paint.mxr + o[1]>> :
            o \in lastTick.paint.thin}
    ELSE {}

PaintTargets == Candidates \cap Cells

NoPaintTick == PaintTargets = {}

\* --------------------------------------------------------------- claims
\* C1 (as stated): within one tick two distinct SAND cells of the current
\* grid are never given the same destination cell.
C1_DistinctDestinations ==
    JustTicked =>
        \A a \in SandOf(Prev), b \in SandOf(Prev) :
            a # b => DestOf(a) # DestOf(b)

\* C2: in a tick with no paint every SAND cell whose cell below is in range
\* and EMPTY has that cell as destination whatever the random outcome, and it
\* is SAND afterwards; a single SAND cell with a row below ends up alone in
\* the cell below.
C2_StraightFallFirst ==
    JustTicked /\ NoPaintTick =>
        /\ \A cell \in SandOf(Prev) :
              Below(cell) \in Cells /\ Prev[Below(cell)] = EMPTY =>
                  /\ DestOf(cell) = Below(cell)
                  /\ \A dir \in {-1, 1} :
                        Destination(Prev, cell[1], cell[2], dir) = Below(cell)
                  /\ grid[Below(cell)] = SAND
        /\ \A cell \in Cells :
              SandOf(Prev) = {cell} /\ Below(cell) \in Cells =>
                  SandOf(grid) = {Below(cell)}

C2_Witness ==
    /\ JustTicked
    /\ NoPaintTick
    /\ SandOf(Prev) = {<<0, 1>>}
    /\ SandOf(grid) = {<<1, 1>>}

\* the scenario of C3: SAND at (0,0) and (1,0) only, and a tick without paint
C3_Scenario ==
    /\ JustTicked
    /\ NoPaintTick
    /\ SandOf(Prev) = {<<0, 0>>, <<1, 0>>}

\* C3 (as stated): in the scenario the (0,0) particle has moved to (1,1)
\* after the tick.
C3_AlwaysSlides ==
    C3_Scenario => grid[<<1, 1>>] = SAND /\ grid[<<0, 0>>] = EMPTY

\* C3 (amended): in the scenario the (0,0) particle moves to (1,1) when its
\* lateral draw is +1 and stays at (0,0) when the draw is -1 (column -1 is
\* out of range); the (1,0) particle falls to (2,0) either way.
C3_SlidesWhenDrawnRight ==
    C3_Scenario =>
        /\ lastTick.dirs[<<0, 0>>] \in {-1, 1}
        /\ lastTick.dirs[<<0, 0>>] = 1 => SandOf(grid) = {<<1, 1>>, <<2, 0>>}
        /\ lastTick.dirs[<<0, 0>>] = -1 => SandOf(grid) = {<<0, 0>>, <<2, 0>>}

C3_Witness ==
    /\ C3_Scenario
    /\ lastTick.dirs[<<0, 0>>] = 1
    /\ grid[<<1, 1>>] = SAND
    /\ grid[<<0, 0>>] = EMPTY

\* the bottom row packed, every other row empty
BottomPacked == [cell \in Cells |-> IF cell[1] = SIZE - 1 THEN SAND ELSE EMPTY]

\* C4: a SAND cell whose cell below and whose two diagonal cells below are
\* each occupied or out of range is its own destination whatever the random
\* outcome and is still SAND after the tick; without paint the packed bottom
\* row is left as it is.
C4_RestInPlace ==
    JustTicked =>
        /\ \A cell \in SandOf(Prev) :
              /\ Taken(Prev, cell[1] + 1, cell[2])
              /\ Taken(Prev, cell[1] + 1, cell[2] - 1)
              /\ Taken(Prev, cell[1] + 1, cell[2] + 1)
              => /\ grid[cell] = SAND
                 /\ DestOf(cell) = cell
                 /\ \A dir \in {-1, 1} :
                       Destination(Prev, cell[1], cell[2], dir) = cell
        /\ NoPaintTick /\ Prev = BottomPacked => grid = Prev

C4_Witness ==
    /\ JustTicked
    /\ NoPaintTick
    /\ Prev = BottomPacked
    /\ grid = BottomPacked

\* C5: a cell that is neither an in-range cell of the paint request nor the
\* destination of a SAND cell of the current grid is EMPTY after the tick.
C5_NoSpontaneousSand ==
    JustTicked =>
        \A cell \in Cells :
            cell \notin PaintTargets /\ cell \notin MoveTargets =>
                grid[cell] = EMPTY

C5_Witness ==
    /\ JustTicked
    /\ PaintTargets # {}
    /\ SandOf(Prev) # {}
    /\ \E cell \in SandOf(Prev) :
          cell \notin PaintTargets /\ cell \notin MoveTargets /\ grid[cell] = EMPTY

\* C6: a tick whose brush candidates are all out of range commits the grid
\* the same tick commits without paint: the candidates are dropped, none is
\* clamped or wrapped into the grid.
C6_OutOfRangePaintDropped ==
    JustTicked /\ lastTick.paint.pressed /\ PaintTargets = {} =>
        /\ grid = update_grid(Prev, NoPaint, lastTick.dirs)
        /\ SandOf(grid) = MoveTargets

C6_Witness ==
    /\ JustTicked
    /\ Candidates # {}
    /\ PaintTargets = {}
    /\ \E cand \in Candidates : cand[1] < 0 \/ cand[2] < 0
    /\ \E cand \in Candidates : cand[1] >= SIZE \/ cand[2] >= SIZE
    /\ SandOf(grid) = MoveTargets
    /\ SandOf(grid) # {}

\* C7: right after handle_events has handled a reset (key r or c) the grid
\* has no SAND cell, whatever it held before.
C7_ResetEmptiesGrid ==
    lastEvent[1] \in {"K_r", "K_c"} => SandCount(grid) = 0

C7_Witness ==
    /\ lastEvent[1] = "K_c"
    /\ lastEvent[2] > 0
    /\ ticks > 0
    /\ SandCount(grid) = 0

\* the tick loop of this frame has ended
TickLoopDone == (pc = "ticks" /\ elapsed_time < DeltaTime) \/ pc = "wait"

\* C8: when the tick loop of a frame ends it has run update_grid exactly
\* floor(A / D) times, A the elapsed time it started with; the remainder
\* current_time - last_update_time lies in 0 .. D-1 and is what elapsed_time
\* holds; the ticks run so far are floor(current_time / D), time counted from
\* the start of run, however the time was split into frames.
C8_FixedStepCatchUp ==
    /\ pc \in {"ticks", "wait"} =>
          elapsed_time = current_time - last_update_time
    /\ TickLoopDone =>
          /\ frameTicks = accStart \div DeltaTime
          /\ 0 <= current_time - last_update_time
          /\ current_time - last_update_time < DeltaTime
          /\ ticks = current_time \div DeltaTime

C8_Witness ==
    /\ TickLoopDone
    /\ frameTicks = 1
    /\ ticks = 2
    /\ accStart > DeltaTime
    /\ current_time - last_update_time > 0

\* C9: once running is false no step is a tick or a draw: the rest of
\* handle_events runs, then shutdown ends the loop, and the loop ends no
\* other way; running stays false.
C9_NoTickAfterQuit ==
    [][ /\ ~running =>
            /\ ~running'
            /\ ticks' = ticks
            /\ lastTick' = lastTick
            /\ screen' = screen
            /\ pc' \in {"events", "check", "exited"}
            /\ frame' # frame => frame' = Append(frame, "shutdown")
            /\ grid' # grid => pc = "events"
        /\ pc' = "exited" => ~running /\ pc \in {"check", "exited"}
      ]_vars

C9_Witness ==
    /\ pc = "exited"
    /\ ~running
    /\ ticks > 0
    /\ SandCount(grid) > 0
    /\ frame = <<"poll", "shutdown">>

\* C10: the steps of a frame come in the order poll, ticks, draw, wait (or
\* poll, shutdown): a tick follows the poll or a tick, never a draw; and what
\* a draw shows is the grid as committed when it ran.
C10_FrameOrder ==
    /\ \A i \in 1 .. Len(frame) :
          /\ i = 1 => frame[i] = "poll"
          /\ i > 1 =>
                \/ frame[i] = "tick" /\ frame[i - 1] \in {"poll", "tick"}
                \/ frame[i] = "draw" /\ frame[i - 1] \in {"poll", "tick"}
                \/ frame[i] = "wait" /\ frame[i - 1] = "draw"
                \/ frame[i] = "shutdown" /\ frame[i - 1] = "poll"
    /\ frame # <<>> /\ frame[Len(frame)] \in {"draw", "wait"} => screen = grid

C10_Witness ==
    /\ frame = <<"poll", "tick", "tick", "draw", "wait">>
    /\ screen = grid
    /\ SandCount(screen) > 0

\* ------------------------------------------------------------ scan orders
NCells == SIZE * SIZE

\* the k-th cell of the scan of update_grid, k from 0
CellAt(k) == <<k \div SIZE, k % SIZE>>

RowMajor == [k \in 1 .. NCells |-> CellAt(k - 1)]

\* rows from the bottom row up
BottomFirst ==
    [k \in 1 .. NCells |-> <<SIZE - 1 - ((k - 1) \div SIZE), (k - 1) % SIZE>>]

ColumnMajor == [k \in 1 .. NCells |-> <<(k - 1) % SIZE, (k - 1) \div SIZE>>]

Coprime(a, n) == \A d \in 2 .. a : ~(a % d = 0 /\ n % d = 0)

\* the orders that start anywhere and step by any stride that visits all cells
StrideOrders ==
    {[k \in 1 .. NCells |-> CellAt((a * (k - 1) + b) % NCells)] :
        a \in {x \in 1 .. (NCells - 1) : Coprime(x, NCells)},
        b \in 0 .. (NCells - 1)}

ScanOrders == StrideOrders \cup {RowMajor, BottomFirst, ColumnMajor}

\* the scan loop of update_grid run over the cells in the given order
RECURSIVE ScanIn(_, _, _, _)
ScanIn(g, next_grid, dirs, order) ==
    IF order = <<>>
    THEN next_grid
    ELSE LET cell == Head(order)
         IN  ScanIn(g, MoveCell(g, next_grid, cell[1], cell[2], dirs[cell]),
                    dirs, Tail(order))

\* the next buffer of the last tick when its scan started
PaintedBuffer ==
    IF lastTick.paint.pressed
    THEN handle_drag(generate_grid, lastTick.paint.mxr, lastTick.paint.myc,
                     lastTick.paint.thin)
    ELSE generate_grid

\* the orders in which the cells of set can be visited
RECURSIVE PermsOf(_)
PermsOf(set) ==
    IF set = {}
    THEN {<<>>}
    ELSE UNION {{<<cell>> \o rest : rest \in PermsOf(set \ {cell})} : cell \in set}

\* C11: with the grid, the paint request and each cell's lateral draw fixed,
\* the scan commits the same next grid in every order of ScanOrders (top
\* first, bottom first, column by column, any start and stride); and on a
\* grid of at most MaxPermSand grains in every order of its SAND cells (an
\* EMPTY cell writes nothing wherever it comes).
C11_ScanOrderIndependent ==
    JustTicked =>
        /\ \A order \in ScanOrders :
              ScanIn(Prev, PaintedBuffer, lastTick.dirs, order) = grid
        /\ \A cell \in Cells \ SandOf(Prev), buf \in {PaintedBuffer, grid} :
              ScanIn(Prev, buf, lastTick.dirs, <<cell>>) = buf
        /\ SandCount(Prev) <= MaxPermSand =>
              \A order \in PermsOf(SandOf(Prev)) :
                  ScanIn(Prev, PaintedBuffer, lastTick.dirs, order) = grid

C11_Witness ==
    /\ JustTicked
    /\ \E a \in SandOf(Prev), b \in SandOf(Prev) : a # b /\ DestOf(a) = DestOf(b)
    /\ \E a \in SandOf(Prev) : DestOf(a) = a
    /\ ScanIn(Prev, PaintedBuffer, lastTick.dirs, BottomFirst) = grid
    /\ grid # Prev

\* C12: every row and column index update_grid and handle_drag use on the
\* current grid or the next buffer lies in 0 .. SIZE-1: a neighbour index out
\* of range (row+1, col-1, col+1, pointer cell plus offset) is rejected
\* before the access.
C12_IndicesInRange ==
    JustTicked =>
        \A idx \in TickAccesses(Prev, lastTick.paint, lastTick.dirs) :
            /\ 0 <= idx[1] /\ idx[1] <= SIZE - 1
            /\ 0 <= idx[2] /\ idx[2] <= SIZE - 1

C12_Witness ==
    /\ JustTicked
    /\ \E cand \in Candidates : cand[1] < 0 \/ cand[2] < 0
    /\ \E cand \in Candidates : cand[1] >= SIZE \/ cand[2] >= SIZE
    /\ \E cell \in SandOf(Prev) :
          /\ cell[2] = 0
          /\ cell[1] + 1 \in Idx
          /\ lastTick.dirs[cell] = -1
    /\ \E cell \in SandOf(Prev) : cell[1] = SIZE - 1
    /\ \A idx \in TickAccesses(Prev, lastTick.paint, lastTick.dirs) :
          idx \in Cells

\* C13: the SAND cells of the committed grid are exactly the in-range cells
\* of the paint request together with the movement destinations; a cell that
\* is both is SAND.
C13_PaintAndMovementUnion ==
    JustTicked =>
        /\ \A cell \in PaintTargets : grid[cell] = SAND
        /\ \A cell \in MoveTargets : grid[cell] = SAND
        /\ SandOf(grid) = PaintTargets \cup MoveTargets

C13_Witness ==
    /\ JustTicked
    /\ \E cell \in PaintTargets \cap MoveTargets : grid[cell] = SAND
    /\ PaintTargets \ MoveTargets # {}
    /\ MoveTargets \ PaintTargets # {}

\* the extent x extent cells at non-negative offsets from the pointer's cell
\* (row myc, column mxr) of the last tick
BrushCells ==
    {<<lastTick.paint.myc + j, lastTick.paint.mxr + i>> :
        i \in 0 .. (RADIUS \div 2 - 1), j \in 0 .. (RADIUS \div 2 - 1)}

\* C14: a tick paints only cells of the brush, the RADIUS // 2 by RADIUS // 2
\* cells at non-negative offsets from the pointer's cell, and only when the
\* primary button is held: with the button up the same pointer and the same
\* thinning draws leave the tick without paint.
C14_BrushExtentAndGate ==
    JustTicked =>
        /\ SandOf(grid) \ MoveTargets \subseteq BrushCells
        /\ SandOf(PaintedBuffer) \subseteq BrushCells
        /\ ~lastTick.paint.pressed => SandOf(grid) = MoveTargets
        /\ update_grid(Prev, [lastTick.paint EXCEPT !.pressed = FALSE],
                       lastTick.dirs)
              = ScanIn(Prev, generate_grid, lastTick.dirs, RowMajor)

C14_Witness ==
    /\ JustTicked
    /\ lastTick.paint.pressed
    /\ lastTick.paint.thin = Offsets
    /\ BrushCells \subseteq Cells
    /\ SandOf(grid) \ MoveTargets # {}
    /\ SandOf(PaintedBuffer) = BrushCells
    /\ SandOf(Prev) # {}

\* C15: a tick without paint commits at most as many SAND cells as the
\* current grid holds.
C15_MovementCreatesNoSand ==
    JustTicked /\ NoPaintTick => SandCount(grid) <= SandCount(Prev)

C15_Witness ==
    /\ JustTicked
    /\ NoPaintTick
    /\ SandCount(grid) < SandCount(Prev)
    /\ grid # Prev

\* C16: in a tick without paint every SAND cell of the next grid is the
\* destination of a SAND cell of the current grid that stayed, or came from
\* the row above and at most one column aside onto a cell that was EMPTY.
C16_LocalDownwardMoves ==
    JustTicked /\ NoPaintTick =>
        /\ \A to \in SandOf(grid) :
              \E from \in SandOf(Prev) : DestOf(from) = to
        /\ \A from \in SandOf(Prev) :
              LET to == DestOf(from)
              IN  \/ to = from
                  \/ /\ to[1] = from[1] + 1
                     /\ to[2] - from[2] \in {-1, 0, 1}
                     /\ to \in Cells
                     /\ Prev[to] = EMPTY

C16_Witness ==
    /\ JustTicked
    /\ NoPaintTick
    /\ \E from \in SandOf(Prev) : DestOf(from) = from
    /\ \E from \in SandOf(Prev) : DestOf(from) = <<from[1] + 1, from[2]>>
    /\ \E from \in SandOf(Prev) : DestOf(from) = <<from[1] + 1, from[2] - 1>>
    /\ \E from \in SandOf(Prev) : DestOf(from) = <<from[1] + 1, from[2] + 1>>

\* every SAND cell of g has the cell below and both diagonal cells below
\* occupied or out of range
AtRest(g) ==
    \A cell \in SandOf(g) :
        /\ Taken(g, cell[1] + 1, cell[2])
        /\ Taken(g, cell[1] + 1, cell[2] - 1)
        /\ Taken(g, cell[1] + 1, cell[2] + 1)

\* C17: from any grid of at most MaxSettleSand grains, with ticks without
\* paint or reset in which a move that stays possible is made in the end
\* (fair lateral draws), the grid is at rest from some tick on, and a tick on
\* a grid at rest leaves the grid unchanged.
C17_Settles ==
    /\ <>[]AtRest(grid)
    /\ [][AtRest(grid) => grid' = grid]_vars

C17_Witness ==
    /\ AtRest(grid)
    /\ ~AtRest(Prev)
    /\ SandCount(grid) < SandCount(Prev)
    /\ \E cell \in SandOf(Prev) :
          lastTick.dirs[cell] # 0 /\ DestOf(cell) # cell

====
